---------------------------- MODULE Spec2Model ----------------------------
(***************************************************************************)
(* The application time tracker of src/timetracking.py as a state machine. *)
(*                                                                         *)
(* Time is the wall clock in whole seconds (the resolution of the report's *)
(* "%Y-%m-%d %H:%M:%S" columns and of timedelta.seconds), counted from     *)
(* midnight of the first day, and it never runs backwards.  Time passes    *)
(* while the loop sleeps; the statements of one iteration run within one   *)
(* clock second.                                                           *)
(*                                                                         *)
(* Spec      track_active_window run by the thread that receives           *)
(*           KeyboardInterrupt (the function called directly), with the    *)
(*           on_activity callbacks of the mouse and keyboard listeners    *)
(*           running beside it.                                            *)
(* SpecMain  the program as __main__ starts it: track_active_window on a   *)
(*           worker thread, KeyboardInterrupt raised in the main thread.   *)
(* SpecApp, SpecFormat, SpecReadable, SpecSink                             *)
(*           extract_app_name, format_timedelta, format_readable_timedelta *)
(*           and save_to_csv applied to inputs drawn from bounded sets.    *)
(***************************************************************************)
EXTENDS Integers, Sequences, FiniteSets, TLC

(***************************************************************************)
(* Program constants.                                                      *)
(***************************************************************************)
\* timedelta(minutes=5), in seconds
IdleThreshold == 300

\* time.sleep(1)
PollInterval == 1

\* timedelta.seconds is the seconds-within-day part of a duration
SecondsPerDay == 86400

(***************************************************************************)
(* Bounds of the model.                                                    *)
(***************************************************************************)
\* iterations of the polling loop after the first
MaxTicks == 2

\* chunks a generated window title is made of
MaxChunks == 3

\* longest duration given to the formatters, in seconds
MaxDuration == 90000

\* calls of save_to_csv made on its own
MaxWrites == 4

(***************************************************************************)
(* Strings.                                                                *)
(***************************************************************************)
\* Python's  tag in title
Contains(tag, s) ==
    \E i \in 1..(Len(s) - Len(tag) + 1) : SubSeq(s, i, i + Len(tag) - 1) = tag

\* index of the leftmost occurrence of sep in s, 0 when there is none
Find(sep, s) ==
    IF Contains(sep, s)
    THEN CHOOSE i \in 1..(Len(s) - Len(sep) + 1) :
            /\ SubSeq(s, i, i + Len(sep) - 1) = sep
            /\ \A j \in 1..(i - 1) : SubSeq(s, j, j + Len(sep) - 1) # sep
    ELSE 0

\* Python's  s.split(sep): the pieces between the occurrences of sep, found
\* left to right without overlap
RECURSIVE Split(_, _)
Split(s, sep) ==
    LET i == Find(sep, s)
    IN  IF i = 0
        THEN << s >>
        ELSE << SubSeq(s, 1, i - 1) >> \o Split(SubSeq(s, i + Len(sep), Len(s)), sep)

\* Python's  s.strip()  for the blanks a title is made of
RECURSIVE Strip(_)
Strip(s) ==
    IF s = "" THEN ""
    ELSE IF SubSeq(s, 1, 1) = " " THEN Strip(SubSeq(s, 2, Len(s)))
    ELSE IF SubSeq(s, Len(s), Len(s)) = " " THEN Strip(SubSeq(s, 1, Len(s) - 1))
    ELSE s

\* '{:02}'.format(n) for n >= 0
Pad2(n) == IF n < 10 THEN "0" \o ToString(n) ELSE ToString(n)

(***************************************************************************)
(* extract_app_name                                                        *)
(***************************************************************************)
\* the dict browser_tags, in its insertion order
browser_tags ==
    << << " - Google Chrome", "Google Chrome" >>,
       << " - Mozilla Firefox", "Mozilla Firefox" >>,
       << " - Microsoft Edge", "Microsoft Edge" >> >>

\* the split rule without the fallback of line 114
split_rule_AlwaysLast(t) ==
    LET parts == Split(t, " - ")
    IN  parts[Len(parts)]

\* parts[-1] if parts[-1].strip() != "" else parts[-2], or the title itself
split_rule(t) ==
    LET parts == Split(t, " - ")
        n == Len(parts)
    IN  IF n > 1
        THEN IF Strip(parts[n]) # "" THEN parts[n] ELSE parts[n - 1]
        ELSE t

\* the rules of extract_app_name in the opposite order
extract_app_name_NoPrecedence(t) ==
    IF Contains("Word", t) THEN "Microsoft Word"
    ELSE IF Contains("Excel", t) THEN "Microsoft Excel"
    ELSE IF \E k \in 1..Len(browser_tags) : Contains(browser_tags[k][1], t)
    THEN LET k == CHOOSE k \in 1..Len(browser_tags) :
                    /\ Contains(browser_tags[k][1], t)
                    /\ \A j \in 1..(k - 1) : ~Contains(browser_tags[j][1], t)
         IN  browser_tags[k][2]
    ELSE split_rule(t)

extract_app_name(t) ==
    IF \E k \in 1..Len(browser_tags) : Contains(browser_tags[k][1], t)
    THEN LET k == CHOOSE k \in 1..Len(browser_tags) :
                    /\ Contains(browser_tags[k][1], t)
                    /\ \A j \in 1..(k - 1) : ~Contains(browser_tags[j][1], t)
         IN  browser_tags[k][2]
    ELSE IF Contains("Excel", t) THEN "Microsoft Excel"
    ELSE IF Contains("Word", t) THEN "Microsoft Word"
    ELSE split_rule(t)

(***************************************************************************)
(* format_timedelta, format_readable_timedelta                             *)
(***************************************************************************)
\* the whole duration in seconds, days included
td_seconds_WithDays(d) == d

\* td.seconds of a duration of d seconds
td_seconds(d) == d % SecondsPerDay

format_timedelta(d) ==
    LET hours == td_seconds(d) \div 3600
        remainder == td_seconds(d) % 3600
        minutes == remainder \div 60
        seconds == remainder % 60
    IN  Pad2(hours) \o ":" \o Pad2(minutes) \o ":" \o Pad2(seconds)

format_readable_timedelta(d) ==
    LET hours == td_seconds(d) \div 3600
        remainder == td_seconds(d) % 3600
        minutes == remainder \div 60
        seconds == remainder % 60
    IN  ToString(hours) \o " hr " \o ToString(minutes) \o " mins "
            \o ToString(seconds) \o " sec"

(***************************************************************************)
(* State.                                                                  *)
(***************************************************************************)
VARIABLES
    now,                 \* datetime.now(), whole seconds
    last_activity_time,  \* global, line 37
    data,                \* global, line 38: the pending rows
    active_window_name,  \* global, line 39
    start_time,          \* global, line 40
    pc,                  \* where track_active_window stands
    new_window_name,     \* local of track_active_window
    end_time,            \* local of track_active_window
    report,              \* the files under report/: date |-> rows of the table
    log,                 \* the error lines of logs/app_time_tracker.log
    inflight,            \* the datetime.now() of every on_activity call that
                         \* has taken it and not stored it yet, oldest first
    interrupted,         \* KeyboardInterrupt has been raised
    int_open,            \* history: the segment open when it was raised
    ticks,               \* history: completed iterations of the loop
    observed,            \* history: the effective label of every iteration,
                         \* and the clock at its line 161
    emitted,             \* history: every row appended to data, in order
    lost,                \* history: the rows of every failed per-change write
    arg,                 \* SpecApp, SpecFormat, SpecReadable: the input
    ret,                 \* the result
    called               \* the function has returned

vars ==
    << now, last_activity_time, data, active_window_name, start_time, pc,
       new_window_name, end_time, report, log, inflight, interrupted,
       int_open, ticks, observed, emitted, lost, arg, ret, called >>

globals == << last_activity_time, data, active_window_name, start_time >>
locals == << new_window_name, end_time >>
history == << ticks, observed, emitted, lost >>
harness == << arg, ret, called >>

\* mouse.Listener and keyboard.Listener: each calls on_activity on a thread
\* of its own
Listeners == {"mouse", "keyboard"}

\* what gw.getActiveWindow() can return: None, or a window with a title
WindowTitles == {"", "Untitled - Notepad"}
ActiveWindows ==
    {[present |-> FALSE, title |-> ""]} \cup
    {[present |-> TRUE, title |-> t] : t \in WindowTitles}

\* the clock when the module is loaded: two seconds before midnight, so that
\* a run can write on one day and on the next
StartTimes == {SecondsPerDay - 2}

\* how long one time.sleep(1) can last: the second asked for, or (the thread
\* or the machine suspended) as long as the idle threshold and longer
SleepTimes == {PollInterval, IdleThreshold, IdleThreshold + 1}

\* the statements of the while loop
LoopPcs == {"observe", "compare", "append", "save", "clear", "set_start",
            "set_name", "sleep"}

\* on_activity reads the clock, which changes during the sleep only, and
\* writes last_activity_time, which the loop reads at line 161 only: its steps
\* are taken before line 156 and between line 161 and line 165, which is every
\* order of them with the loop's statements that can be told apart
ListenPcs == {"observe", "compare"}

(***************************************************************************)
(* The report sink.                                                        *)
(***************************************************************************)
\* the date part of get_csv_filename() at clock value t: one file per day
get_csv_filename(t) == t \div SecondsPerDay

\* the labels active_window_name can hold, and the durations a segment of
\* the bounded run can have
Labels == WindowTitles \cup {"Unknown", "Idle"}
Durations == 0..(MaxTicks * (IdleThreshold + 1))

\* extract_app_name, format_timedelta and format_readable_timedelta,
\* tabulated over them
app_name_of == [name \in Labels |-> extract_app_name(name)]
total_time_of == [d \in Durations |-> format_timedelta(d)]
readable_total_time_of == [d \in Durations |-> format_readable_timedelta(d)]

\* one row of the table, lines 177-184
Row(name, st, et) ==
    [ Application |-> app_name_of[name],
      Title |-> name,
      StartTime |-> st,
      EndTime |-> et,
      TotalTime |-> total_time_of[et - st],
      ReadableTotalTime |-> readable_total_time_of[et - st] ]

\* the cells pd.read_csv (line 54, default na_values) reads as missing; the
\* DataFrame holds NaN for them and df.to_csv (line 66) writes NaN as an
\* empty cell
na_values == {"", "NA", "N/A", "NULL", "NaN", "nan", "null"}

\* a cell of the existing file after pd.read_csv and df.to_csv
reread(cell) == IF cell \in na_values THEN "" ELSE cell

\* lines 54-56 and 66 for the rows of an existing file: every other cell of
\* the model's rows (a date, a duration, a name) is text that reads back as
\* written
read_csv(rows) ==
    [i \in 1..Len(rows) |->
        [rows[i] EXCEPT !.Application = reread(@), !.Title = reread(@)]]

\* the table save_to_csv leaves in filename when nothing raises: the rows
\* read from an existing file followed by the new ones
save_to_csv(files, rows, filename) ==
    IF filename \in DOMAIN files
    THEN [files EXCEPT ![filename] = read_csv(files[filename]) \o rows]
    ELSE (filename :> rows) @@ files

(***************************************************************************)
(* Initial state: the module's globals, lines 36-40.                       *)
(***************************************************************************)
Init ==
    /\ now \in StartTimes
    /\ last_activity_time = now
    /\ data = << >>
    /\ active_window_name = ""
    /\ start_time = now
    /\ pc = "observe"
    /\ new_window_name = ""
    /\ end_time = now
    /\ report = << >>
    /\ log = << >>
    /\ inflight = << >>
    /\ interrupted = FALSE
    /\ int_open = << >>
    /\ ticks = 0
    /\ observed = << >>
    /\ emitted = << >>
    /\ lost = {}
    /\ arg = ""
    /\ ret = ""
    /\ called = FALSE

(***************************************************************************)
(* track_active_window: the while loop, lines 154-196.                     *)
(***************************************************************************)
\* the idle test taken from the start of the open segment
is_idle_SinceStart == now - start_time > IdleThreshold

\* the idle test with >= for >
is_idle_AtThreshold == now - last_activity_time >= IdleThreshold

\* the test of line 161
is_idle == now - last_activity_time > IdleThreshold

\* lines 156-162: the effective label of this iteration
Observe ==
    /\ pc = "observe"
    /\ \E w \in ActiveWindows :
          new_window_name' = IF is_idle THEN "Idle"
                             ELSE IF w.present THEN w.title ELSE "Unknown"
    /\ observed' = Append(observed, [label |-> new_window_name', at |-> now])
    /\ pc' = "compare"
    /\ UNCHANGED << now, globals, end_time, report, log, inflight,
                    interrupted, int_open, ticks, emitted, lost, harness >>

\* line 156 raising, with the open segment closed and written as lines
\* 200-215 do
ObserveRaises_Flushes ==
    /\ pc = "observe"
    /\ pc' = "done"
    /\ log' = Append(log, "Unexpected error in track_active_window")
    /\ LET row == Row(active_window_name, start_time, now)
           open == active_window_name # ""
           rows == IF open THEN Append(data, row) ELSE data
       IN  /\ data' = rows
           /\ emitted' = IF open THEN Append(emitted, row) ELSE emitted
           /\ report' = save_to_csv(report, rows, get_csv_filename(now))
    /\ UNCHANGED << now, last_activity_time, active_window_name, start_time,
                    locals, inflight, interrupted, int_open, ticks, observed,
                    lost, harness >>

\* line 156 raising: caught at line 218, logged, and the function returns
ObserveRaises ==
    /\ pc = "observe"
    /\ pc' = "done"
    /\ log' = Append(log, "Unexpected error in track_active_window")
    /\ UNCHANGED << now, globals, locals, report, inflight, interrupted,
                    int_open, history, harness >>

\* the test of line 170
segment_open == active_window_name # ""

\* lines 165-170 without the test of line 170
Compare_EmitsOnEveryChange ==
    /\ pc = "compare"
    /\ IF active_window_name # new_window_name
       THEN /\ end_time' = now
            /\ pc' = "append"
       ELSE /\ end_time' = end_time
            /\ pc' = "sleep"
    /\ UNCHANGED << now, globals, new_window_name, report, log, inflight,
                    interrupted, int_open, history, harness >>

\* lines 165-170 without the test of line 165
Compare_ClosesOnEveryTick ==
    /\ pc = "compare"
    /\ end_time' = now
    /\ pc' = IF segment_open THEN "append" ELSE "set_name"
    /\ UNCHANGED << now, globals, new_window_name, report, log, inflight,
                    interrupted, int_open, history, harness >>

\* lines 165-170
Compare ==
    /\ pc = "compare"
    /\ IF active_window_name # new_window_name
       THEN /\ end_time' = now
            /\ pc' = IF segment_open THEN "append" ELSE "set_name"
       ELSE /\ end_time' = end_time
            /\ pc' = "sleep"
    /\ UNCHANGED << now, globals, new_window_name, report, log, inflight,
                    interrupted, int_open, history, harness >>

\* lines 172-184 with the new window's name as the title
AppendRow_TitleOfNewWindow ==
    /\ pc = "append"
    /\ data' = Append(data, Row(new_window_name, start_time, end_time))
    /\ emitted' = Append(emitted, Row(new_window_name, start_time, end_time))
    /\ pc' = "save"
    /\ UNCHANGED << now, last_activity_time, active_window_name, start_time,
                    locals, report, log, inflight, interrupted, int_open,
                    ticks, observed, lost, harness >>

\* lines 172-184
AppendRow ==
    /\ pc = "append"
    /\ data' = Append(data, Row(active_window_name, start_time, end_time))
    /\ emitted' = Append(emitted, Row(active_window_name, start_time, end_time))
    /\ pc' = "save"
    /\ UNCHANGED << now, last_activity_time, active_window_name, start_time,
                    locals, report, log, inflight, interrupted, int_open,
                    ticks, observed, lost, harness >>

\* line 186: the table is rewritten, or save_to_csv catches an exception and
\* logs it
Save ==
    /\ pc = "save"
    /\ \/ /\ report' = save_to_csv(report, data, get_csv_filename(now))
          /\ UNCHANGED << log, lost >>
       \/ /\ log' = Append(log, "Failed to save data to CSV")
          /\ lost' = lost \cup {data[i] : i \in 1..Len(data)}
          /\ UNCHANGED report
    /\ pc' = "clear"
    /\ UNCHANGED << now, globals, locals, inflight, interrupted, int_open,
                    ticks, observed, emitted, harness >>

\* line 187
Clear ==
    /\ pc = "clear"
    /\ data' = << >>
    /\ pc' = "set_start"
    /\ UNCHANGED << now, last_activity_time, active_window_name, start_time,
                    locals, report, log, inflight, interrupted, int_open,
                    history, harness >>

\* line 190
SetStart ==
    /\ pc = "set_start"
    /\ start_time' = end_time
    /\ pc' = "set_name"
    /\ UNCHANGED << now, last_activity_time, data, active_window_name,
                    locals, report, log, inflight, interrupted, int_open,
                    history, harness >>

\* line 193
SetName ==
    /\ pc = "set_name"
    /\ active_window_name' = new_window_name
    /\ pc' = "sleep"
    /\ UNCHANGED << now, last_activity_time, data, start_time, locals,
                    report, log, inflight, interrupted, int_open, history,
                    harness >>

\* line 196: the clock advances while the loop sleeps.  An on_activity call
\* that took the clock before an earlier sleep has stored it by now (a call
\* is preempted across one sleep at most); the run is cut at MaxTicks sleeps
Sleep ==
    /\ pc = "sleep"
    /\ ticks < MaxTicks
    /\ \A i \in 1..Len(inflight) : inflight[i] = now
    /\ \E dt \in SleepTimes : now' = now + dt
    /\ ticks' = ticks + 1
    /\ pc' = "observe"
    /\ UNCHANGED << globals, locals, report, log, inflight, interrupted,
                    int_open, observed, emitted, lost, harness >>

Loop ==
    \/ Observe
    \/ ObserveRaises
    \/ Compare
    \/ AppendRow
    \/ Save
    \/ Clear
    \/ SetStart
    \/ SetName
    \/ Sleep

(***************************************************************************)
(* on_activity, lines 222-227, called by either listener.                  *)
(***************************************************************************)
\* s without its i-th element
Remove(s, i) == SubSeq(s, 1, i - 1) \o SubSeq(s, i + 1, Len(s))

\* datetime.now() is evaluated, by a listener that is not in a call
ActivityNow ==
    /\ Len(inflight) < Cardinality(Listeners)
    /\ pc \in ListenPcs
    /\ ~interrupted
    /\ inflight' = Append(inflight, now)
    /\ UNCHANGED << now, globals, pc, locals, report, log, interrupted,
                    int_open, history, harness >>

\* the value a call has taken is stored in the global
ActivityStore ==
    /\ pc \in ListenPcs
    /\ \E i \in 1..Len(inflight) :
          /\ last_activity_time' = inflight[i]
          /\ inflight' = Remove(inflight, i)
    /\ UNCHANGED << now, data, active_window_name, start_time, pc, locals,
                    report, log, interrupted, int_open, history, harness >>

on_activity ==
    \/ ActivityNow
    \/ ActivityStore

(***************************************************************************)
(* KeyboardInterrupt.                                                      *)
(***************************************************************************)
\* lines 199-215: raised in the thread that runs the loop, between any two
\* of its statements; the handler closes the open segment at the current
\* time and writes the pending rows, and the function returns
Interrupt ==
    /\ pc \in LoopPcs
    /\ ~interrupted
    /\ interrupted' = TRUE
    /\ int_open' = << [Title |-> active_window_name, StartTime |-> start_time,
                       EndTime |-> now] >>
    /\ end_time' = now
    /\ LET row == Row(active_window_name, start_time, now)
           rows == IF segment_open THEN Append(data, row) ELSE data
       IN  /\ data' = rows
           /\ emitted' = IF segment_open THEN Append(emitted, row) ELSE emitted
           /\ \/ /\ report' = save_to_csv(report, rows, get_csv_filename(now))
                 /\ UNCHANGED log
              \/ /\ log' = Append(log, "Failed to save data to CSV")
                 /\ UNCHANGED report
    /\ pc' = "done"
    /\ UNCHANGED << now, last_activity_time, active_window_name, start_time,
                    new_window_name, inflight, ticks, observed,
                    lost, harness >>

\* lines 231-240: raised in the main thread, which waits in m_listener.join()
\* while the loop runs on window_tracking_thread; leaving the with block stops
\* both listeners, and nothing reaches the handler of lines 199-215
MainInterrupt ==
    /\ pc \in LoopPcs
    /\ ~interrupted
    /\ interrupted' = TRUE
    /\ int_open' = << [Title |-> active_window_name, StartTime |-> start_time,
                       EndTime |-> now] >>
    /\ UNCHANGED << now, globals, pc, locals, report, log, inflight, history,
                    harness >>

(***************************************************************************)
(* Specifications.                                                         *)
(***************************************************************************)
Next ==
    \/ Loop
    \/ on_activity
    \/ Interrupt

Spec == Init /\ [][Next]_vars

NextMain ==
    \/ Loop
    \/ on_activity
    \/ MainInterrupt

SpecMain == Init /\ [][NextMain]_vars

(***************************************************************************)
(* extract_app_name and format_timedelta on their own.                     *)
(***************************************************************************)
\* the pieces generated titles are made of
Chunks ==
    {"a", " ", " - ", "Excel", "Word", " - Google Chrome",
     " - Mozilla Firefox", " - Microsoft Edge"}

\* the titles of at most n chunks
RECURSIVE TitlesOf(_)
TitlesOf(n) ==
    IF n = 0
    THEN {""}
    ELSE LET shorter == TitlesOf(n - 1)
         IN  shorter \cup {t \o c : t \in shorter, c \in Chunks}

TitlePool ==
    TitlesOf(MaxChunks) \cup
    {"Report.xlsx - Excel", "doc.docx - Word", "Untitled - Notepad",
     "SingleWord"}

\* everything but the harness is as the module leaves it
InitHarness(inputs) ==
    /\ now \in StartTimes
    /\ last_activity_time = now
    /\ data = << >>
    /\ active_window_name = ""
    /\ start_time = now
    /\ pc = "observe"
    /\ new_window_name = ""
    /\ end_time = now
    /\ report = << >>
    /\ log = << >>
    /\ inflight = << >>
    /\ interrupted = FALSE
    /\ int_open = << >>
    /\ ticks = 0
    /\ observed = << >>
    /\ emitted = << >>
    /\ lost = {}
    /\ arg \in inputs
    /\ ret = ""
    /\ called = FALSE

tracker == << now, globals, pc, locals, report, log, inflight, interrupted,
              int_open, history >>

CallExtractAppName ==
    /\ ~called
    /\ ret' = extract_app_name(arg)
    /\ called' = TRUE
    /\ UNCHANGED << arg, tracker >>

SpecApp == InitHarness(TitlePool) /\ [][CallExtractAppName]_vars

CallFormatTimedelta ==
    /\ ~called
    /\ ret' = format_timedelta(arg)
    /\ called' = TRUE
    /\ UNCHANGED << arg, tracker >>

SpecFormat == InitHarness(0..MaxDuration) /\ [][CallFormatTimedelta]_vars

CallFormatReadableTimedelta ==
    /\ ~called
    /\ ret' = format_readable_timedelta(arg)
    /\ called' = TRUE
    /\ UNCHANGED << arg, tracker >>

SpecReadable ==
    InitHarness(0..MaxDuration) /\ [][CallFormatReadableTimedelta]_vars

\* the window titles of the rows given to save_to_csv on its own
SinkTitles == {"NA", "Untitled - Notepad", "Inbox - Mozilla Firefox"}

\* one-second segments with those titles, as lines 172-184 build them
SinkRows ==
    {[ Application |-> extract_app_name(t),
       Title |-> t,
       StartTime |-> st,
       EndTime |-> st + 1,
       TotalTime |-> format_timedelta(1),
       ReadableTotalTime |-> format_readable_timedelta(1) ] :
        t \in SinkTitles, st \in StartTimes}

\* save_to_csv(data, get_csv_filename()) with one pending row: the table is
\* rewritten, or an exception is caught and logged (line 69)
CallSaveToCsv ==
    /\ ticks < MaxWrites
    /\ ticks' = ticks + 1
    /\ \E row \in SinkRows :
          /\ data' = << row >>
          /\ \/ /\ report' = save_to_csv(report, data', get_csv_filename(now))
                /\ UNCHANGED log
             \/ /\ log' = Append(log, "Failed to save data to CSV")
                /\ UNCHANGED report
    /\ UNCHANGED << now, last_activity_time, active_window_name, start_time,
                    pc, locals, inflight, interrupted, int_open, observed,
                    emitted, lost, harness >>

SpecSink == InitHarness({""}) /\ [][CallSaveToCsv]_vars

(***************************************************************************)
(* The claims.                                                             *)
(***************************************************************************)
\* the rows closed at clock value t
ClosedAt(t) == {k \in 1..Len(emitted) : emitted[k].EndTime = t}

\* the labels that are not the idle override
RealLabels == WindowTitles \cup {"Unknown"}

\* the iterations whose effective label differs from the one before
LabelChanges ==
    {i \in 2..Len(observed) : observed[i].label # observed[i - 1].label}

\* C1 as stated: when an iteration is complete, the number of segments
\* emitted equals the number of iterations whose observed label differs from
\* the label observed on the iteration before.
C1_EmittedEqualsLabelChanges ==
    pc = "sleep" => Len(emitted) = Cardinality(LabelChanges)

\* C1, amended: when an iteration is complete, the number of segments emitted
\* equals the number of iterations whose observed label differs from the label
\* observed on the iteration before, that earlier label not being the empty
\* title.
C1_EmittedEqualsChangesOfOpenLabel ==
    pc = "sleep" =>
        Len(emitted) =
            Cardinality({i \in LabelChanges : observed[i - 1].label # ""})

\* C1: a window, then a window with an empty title, then another label: two
\* changes and one segment.
C1_Witness ==
    /\ pc = "sleep"
    /\ Len(observed) = 3
    /\ observed[1].label = "Untitled - Notepad"
    /\ observed[2].label = ""
    /\ observed[3].label = "Unknown"
    /\ Len(emitted) = 1

\* C2: the end of every emitted segment is the start of the segment emitted
\* next, the one emitted on interruption included.
C2_SegmentsTile ==
    \A n \in 1..(Len(emitted) - 1) :
        emitted[n].EndTime = emitted[n + 1].StartTime

\* C3, what holds once an iteration is complete: the current label is the
\* label the iteration observed; an iteration that finds the label idle and
\* idleness persisting closes nothing; the iteration that turns the label to
\* "Idle" closes exactly one segment, the window's; the iteration that turns it
\* back takes a real window label and closes exactly one segment, "Idle".
C3_Iterations ==
    pc = "sleep" =>
        /\ active_window_name = observed[Len(observed)].label
        /\ \A i \in 2..Len(observed) :
              LET prev == observed[i - 1].label
                  cur == observed[i]
              IN  /\ (prev = "Idle" /\ cur.label = "Idle") =>
                         ClosedAt(cur.at) = {}
                  /\ (prev \notin {"Idle", ""} /\ cur.label = "Idle") =>
                         /\ Cardinality(ClosedAt(cur.at)) = 1
                         /\ \A k \in ClosedAt(cur.at) : emitted[k].Title = prev
                  /\ (prev = "Idle" /\ cur.label # "Idle") =>
                         /\ cur.label \in RealLabels
                         /\ Cardinality(ClosedAt(cur.at)) = 1
                         /\ \A k \in ClosedAt(cur.at) :
                               emitted[k].Title = "Idle"

\* C3, lines 156-162 of an iteration: with more than the threshold since the
\* last activity the label observed is "Idle"; while the label is "Idle" and
\* last_activity_time is still older than the threshold was at the previous
\* iteration (no activity has been recorded since), it is "Idle" again; and
\* once on_activity has left a last_activity_time within the threshold, it is
\* the real window label.
C3_Observation ==
    (pc = "observe" /\ pc' = "compare") =>
        /\ now - last_activity_time > IdleThreshold => new_window_name' = "Idle"
        /\ (/\ active_window_name = "Idle"
            /\ Len(observed) > 0
            /\ observed[Len(observed)].at - last_activity_time > IdleThreshold)
               => new_window_name' = "Idle"
        /\ (/\ active_window_name = "Idle"
            /\ now - last_activity_time <= IdleThreshold)
               => new_window_name' \in RealLabels

\* C3 as stated, lines 156-162 of an iteration: with at least the threshold
\* since the last activity the label observed is "Idle", and with less than
\* the threshold it is the real window label.
C3_ObservationAtLeast ==
    (pc = "observe" /\ pc' = "compare") =>
        /\ now - last_activity_time >= IdleThreshold => new_window_name' = "Idle"
        /\ now - last_activity_time < IdleThreshold =>
               new_window_name' \in RealLabels

C4_InterruptClosesOpenSegment ==
    (interrupted /\ int_open[1].Title # "") =>
        \A k \in 1..Len(emitted) : emitted[k].EndTime <= int_open[1].EndTime

\* C5: a segment whose per-change write failed is in no table, whatever is
\* written later.
C5_FailedSegmentNeverWritten ==
    \A f \in DOMAIN report :
        \A k \in 1..Len(report[f]) : report[f][k] \notin lost

\* C6: no row appears twice in a day's table.
C6_NoDuplicateRows ==
    \A f \in DOMAIN report :
        \A i, j \in 1..Len(report[f]) :
            i # j => report[f][i] # report[f][j]

\* C7: last_activity_time never decreases; a step that changes it or belongs
\* to on_activity leaves the label, the segment start, the pending rows and
\* the tables alone; and no step of the loop changes it.
C7_ActivityTimestampOnly ==
    [][ /\ last_activity_time' >= last_activity_time
        /\ (last_activity_time' # last_activity_time \/ inflight' # inflight) =>
               /\ UNCHANGED << data, active_window_name, start_time, report >>
               /\ UNCHANGED << pc, locals >>
        /\ pc' # pc => last_activity_time' = last_activity_time ]_vars

\* C8, in every state: the open segment does not start in the future, every
\* emitted segment starts no later than it ends, and once an iteration is
\* complete the current label is the label it observed and every emitted
\* segment ends no later than the open one starts (one segment is open, after
\* all the closed ones).
C8_State ==
    /\ start_time <= now
    /\ \A k \in 1..Len(emitted) : emitted[k].StartTime <= emitted[k].EndTime
    /\ pc = "sleep" =>
           /\ observed[Len(observed)].label = active_window_name
           /\ \A k \in 1..Len(emitted) : emitted[k].EndTime <= start_time

\* C8, when a segment is emitted: a segment is open, and the row carries the
\* current label as its title and the segment start as its start.
C8_Emission ==
    emitted' # emitted =>
        /\ active_window_name # ""
        /\ Len(emitted') = Len(emitted) + 1
        /\ SubSeq(emitted', 1, Len(emitted)) = emitted
        /\ emitted'[Len(emitted')].Title = active_window_name
        /\ emitted'[Len(emitted')].StartTime = start_time
        /\ emitted'[Len(emitted')].EndTime = now

\* C8: at most one segment is open, start_time is never later than the clock,
\* and every emitted segment has start <= end and the label that was current
\* while it was open as its title.
C8_SegmentInvariant == [][C8_State' /\ C8_Emission]_vars

\* C8: a segment was closed on an earlier iteration and the next one is open
\* since.
C8_Witness ==
    /\ pc = "sleep"
    /\ Len(emitted) = 1
    /\ active_window_name = "Unknown"
    /\ emitted[1].Title = "Untitled - Notepad"
    /\ emitted[1].EndTime = start_time
    /\ start_time < now

\* the browsers whose tag a title contains
ContainedBrowsers(t) ==
    {k \in 1..Len(browser_tags) : Contains(browser_tags[k][1], t)}

\* r is the part of t after a separator when that part is not blank, or the
\* part before a separator that only blanks follow
IsLastNonBlankPart(t, r) ==
    \E i \in 1..(Len(t) - 2) :
        /\ SubSeq(t, i, i + 2) = " - "
        /\ LET head == SubSeq(t, 1, i - 1)
               rest == SubSeq(t, i + 3, Len(t))
           IN  \/ rest = r /\ Strip(rest) # ""
               \/ /\ Strip(rest) = ""
                  /\ \/ head = r
                     \/ \E j \in 1..(Len(head) - 2) :
                           /\ SubSeq(head, j, j + 2) = " - "
                           /\ SubSeq(head, j + 3, Len(head)) = r

\* C9: a title containing a browser tag yields the name of a browser whose
\* tag it contains, whatever else it contains; otherwise one containing
\* "Excel" yields "Microsoft Excel"; otherwise one containing "Word" yields
\* "Microsoft Word"; otherwise a title without " - " is returned unchanged and
\* one with it yields a part next to a separator.
C9_Precedence ==
    called =>
        LET browsers == ContainedBrowsers(arg)
            excel == Contains("Excel", arg)
            word == Contains("Word", arg)
        IN  /\ browsers # {} => \E k \in browsers : ret = browser_tags[k][2]
            /\ (browsers = {} /\ excel) => ret = "Microsoft Excel"
            /\ (browsers = {} /\ ~excel /\ word) => ret = "Microsoft Word"
            /\ (browsers = {} /\ ~excel /\ ~word /\ ~Contains(" - ", arg))
                   => ret = arg
            /\ (browsers = {} /\ ~excel /\ ~word /\ Contains(" - ", arg))
                   => IsLastNonBlankPart(arg, ret)

\* C9: a browser's title that also contains "Excel" and "Word".
C9_Witness ==
    /\ called
    /\ arg = " - Google ChromeExcelWord"
    /\ ret = "Google Chrome"

\* C10: format_timedelta(d) is HH:MM:SS with HH = d div 3600,
\* MM = (d mod 3600) div 60 and SS = d mod 60, each of two digits.
C10_FormatIsHMS ==
    called =>
        ret = Pad2(arg \div 3600) \o ":" \o Pad2((arg % 3600) \div 60)
                  \o ":" \o Pad2(arg % 60)

\* the label that was current when iteration i began
LabelBefore(i) == IF i = 1 THEN "" ELSE observed[i - 1].label

\* C11: once an iteration that observed a label other than the current one is
\* complete, the current label is the label observed and start_time is the
\* time of that change, whether or not a segment was emitted.
C11_ChangeMovesLabelAndStart ==
    pc = "sleep" =>
        LET n == Len(observed)
        IN  observed[n].label # LabelBefore(n) =>
                /\ active_window_name = observed[n].label
                /\ start_time = observed[n].at

\* C12: every emitted segment has the application derived from its title, and
\* every iteration that fell inside [start, end) observed the segment's title
\* as its effective label.
C12_LabelHomogeneous ==
    \A k \in 1..Len(emitted) :
        /\ emitted[k].Application = extract_app_name(emitted[k].Title)
        /\ \A i \in 1..Len(observed) :
              (/\ emitted[k].StartTime <= observed[i].at
               /\ observed[i].at < emitted[k].EndTime)
                  => observed[i].label = emitted[k].Title

\* C13, lines 156-162 of an iteration: the effective label is "Idle" exactly
\* when more than the threshold has passed since last_activity_time, whichever
\* window is in the foreground, and a real window label otherwise; it is the
\* label the iteration records.
C13_EffectiveLabel ==
    (pc = "observe" /\ pc' = "compare") =>
        /\ new_window_name' = "Idle" <=>
               now - last_activity_time > IdleThreshold
        /\ new_window_name' # "Idle" => new_window_name' \in RealLabels
        /\ observed'[Len(observed')] = [label |-> new_window_name', at |-> now]

\* C13, an iteration that finds the label "Idle" and the idle condition
\* holding: the label observed is the current one, and the comparison of line
\* 165 goes to the sleep without touching the label, the segment start, the
\* pending rows or the tables.
C13_StaysIdle ==
    /\ (/\ pc = "observe" /\ pc' = "compare"
        /\ active_window_name = "Idle"
        /\ now - last_activity_time > IdleThreshold)
           => new_window_name' = active_window_name
    /\ (/\ pc = "compare" /\ pc' # "done"
        /\ active_window_name = "Idle" /\ new_window_name = "Idle")
           => /\ pc' \in {"compare", "sleep"}
              /\ UNCHANGED << active_window_name, start_time, data, report,
                              emitted >>

\* C13, once an iteration is complete: of two consecutive iterations that
\* both found the idle condition, the second closed nothing.
C13_NoEmissionWhileIdle ==
    pc = "sleep" =>
        \A i \in 2..Len(observed) :
            (observed[i - 1].label = "Idle" /\ observed[i].label = "Idle")
                => \A k \in 1..Len(emitted) : emitted[k].EndTime # observed[i].at

C14_Steps ==
    LET unchanged == UNCHANGED << active_window_name, start_time, data,
                                  report, emitted >>
    IN  /\ (/\ pc = "observe" /\ pc' = "compare"
            /\ new_window_name' = active_window_name) => unchanged
        /\ (/\ pc = "compare" /\ pc' # "done"
            /\ new_window_name = active_window_name)
               => pc' \in {"compare", "sleep"} /\ unchanged
        /\ (pc = "sleep" /\ pc' = "observe") => unchanged

\* C14, once an iteration whose observed label was the current one is
\* complete: it closed no segment and left no pending row.
C14_NothingEmitted ==
    pc = "sleep" =>
        LET n == Len(observed)
        IN  observed[n].label = LabelBefore(n) =>
                /\ \A k \in 1..Len(emitted) : emitted[k].EndTime # observed[n].at
                /\ data = << >>

\* C14: a tick on which the observed label equals the current label leaves
\* the current label, the segment start, the pending buffer and the report
\* sink unchanged; nothing is emitted and nothing is written.
C14_NoChangeNoEffect == [][C14_Steps /\ C14_NothingEmitted']_vars

\* C14: the same window on two ticks, the open segment growing.
C14_Witness ==
    /\ pc = "sleep"
    /\ Len(observed) = 2
    /\ observed[1].label = "Untitled - Notepad"
    /\ observed[2].label = "Untitled - Notepad"
    /\ active_window_name = "Untitled - Notepad"
    /\ start_time < now
    /\ emitted = << >>
    /\ report = << >>

\* C15, the step on which the loop ends without KeyboardInterrupt: one line
\* is logged, and the pending rows, the emitted segments, the tables, the
\* current label and the segment start stay as they were (the open segment is
\* not closed and not written).
C15_Caught ==
    (pc \in LoopPcs /\ pc' = "done" /\ ~interrupted') =>
        /\ log' = Append(log, "Unexpected error in track_active_window")
        /\ UNCHANGED << active_window_name, start_time, data, report,
                        emitted, observed, ticks >>

\* C15, after the loop has ended: it stays ended, no iteration observes
\* anything, nothing is emitted and no table changes.
C15_Ended ==
    pc = "done" =>
        /\ pc' = "done"
        /\ UNCHANGED << observed, ticks, emitted, data, report >>

\* C15: an unexpected exception raised inside the polling loop is caught at
\* the loop's outer boundary and the loop terminates: no further tick runs, no
\* segment is emitted and the sink is left unchanged, the open segment not
\* being flushed.
C15_UnexpectedExceptionEndsLoop == [][C15_Caught /\ C15_Ended]_vars

\* C15: the loop ended by an exception with a segment open, after one segment
\* was written.
C15_Witness ==
    /\ pc = "done"
    /\ ~interrupted
    /\ active_window_name = "Unknown"
    /\ Len(emitted) = 1
    /\ emitted[1].Title = "Untitled - Notepad"
    /\ report = (get_csv_filename(emitted[1].EndTime) :> emitted)
    /\ log = << "Unexpected error in track_active_window" >>

\* C16: format_readable_timedelta(d) is "H hr M mins S sec", unpadded, with
\* H, M and S taken from d mod 86400 only (whole days are dropped), and for
\* d < 86400 they are the numbers format_timedelta(d) shows.
C16_ReadableDropsDays ==
    called =>
        LET within == arg % 86400
            H == within \div 3600
            M == (within % 3600) \div 60
            S == within % 60
        IN  /\ ret = ToString(H) \o " hr " \o ToString(M) \o " mins "
                         \o ToString(S) \o " sec"
            /\ arg < 86400 =>
                   format_timedelta(arg) =
                       Pad2(H) \o ":" \o Pad2(M) \o ":" \o Pad2(S)

\* C16: twenty-five hours read as one hour.
C16_Witness ==
    /\ called
    /\ arg = 90000
    /\ ret = "1 hr 0 mins 0 sec"

\* the titles the split rule decides: no browser tag, no "Excel", no "Word",
\* and more than one part around " - "
SplitRuleApplies(t) ==
    /\ ContainedBrowsers(t) = {}
    /\ ~Contains("Excel", t)
    /\ ~Contains("Word", t)
    /\ Len(Split(t, " - ")) > 1

\* C17 as stated: for such a title the result is the last part, or the
\* second-to-last part when the last is blank after trimming, and it is never
\* blank.
C17_LastPartNeverBlank ==
    (called /\ SplitRuleApplies(arg)) =>
        LET parts == Split(arg, " - ")
            n == Len(parts)
        IN  /\ ret = IF Strip(parts[n]) # "" THEN parts[n] ELSE parts[n - 1]
            /\ Strip(ret) # ""

\* C17, amended: for such a title the result is the last part, or the
\* second-to-last part when the last is blank after trimming; it is blank
\* exactly when the last two parts are both blank.
C17_LastPartOrTheOneBefore ==
    (called /\ SplitRuleApplies(arg)) =>
        LET parts == Split(arg, " - ")
            n == Len(parts)
        IN  /\ ret = IF Strip(parts[n]) # "" THEN parts[n] ELSE parts[n - 1]
            /\ Strip(ret) = "" <=>
                   (Strip(parts[n]) = "" /\ Strip(parts[n - 1]) = "")

\* C17: a title ending in the separator yields the part before it.
C17_Witness ==
    /\ called
    /\ arg = "a - "
    /\ ret = "a"

\* the rows of the day's table, none when the file does not exist
TableOf(files, filename) ==
    IF filename \in DOMAIN files THEN files[filename] ELSE << >>

\* C18: a successful save_to_csv leaves in the day's table the rows it held
\* before, in their order, followed by the rows written, and a failed one
\* leaves the tables as they were.
C18_AppendOnly ==
    [][ LET f == get_csv_filename(now)
        IN  IF log' = log
            THEN /\ TableOf(report', f) = TableOf(report, f) \o data'
                 /\ \A g \in DOMAIN report : g # f => report'[g] = report[g]
            ELSE report' = report ]_vars

\* C19: when the loop is about to commit "Idle" as the current label (line
\* 193), last_activity_time is more than the idle threshold in the past.
C19_IdleCommittedOnlyWhenIdle ==
    (pc = "set_name" /\ new_window_name = "Idle") =>
        now - last_activity_time > IdleThreshold

=============================================================================
